---------------------------- MODULE Spec2Model ----------------------------
(***************************************************************************)
(* Duty Hours Dashboard (src/app.py): geofence "Arrived"/"Left" rows are   *)
(* normalised, paired per Location into sessions by pair_arrive_left, and  *)
(* the sessions are aggregated by update_graphs over a date range.         *)
(*                                                                         *)
(* Representation.  A timestamp is a number of minutes since 1970-01-01    *)
(* 00:00 (the source format "%B %d, %Y at %I:%M%p" has minute resolution). *)
(* TimeElapsed, in the source the float (t - open_start).total_seconds()   *)
(* / 3600.0, is kept exactly as the number of minutes m standing for the   *)
(* value m/60 hours; a comparison with MAX_SHIFT_HOURS is made against     *)
(* MAX_SHIFT_HOURS * MinutesPerHour.  Sums of TimeElapsed are therefore    *)
(* exact sums; floating-point rounding of pandas' sum is not represented.  *)
(***************************************************************************)
EXTENDS Integers, Sequences, FiniteSets, TLC

VARIABLES
  pc,            \* position in the script / in pair_arrive_left
  combined_df,   \* raw rows, line 61-62
  data,          \* rows being normalised, lines 68-85
  todo,          \* Locations whose group has not been handed to apply yet
  g,             \* the group pair_arrive_left works on
  i,             \* position of the zip iterator of line 108 (next row, 1-based)
  open_start, open_addr, open_loc, rows,   \* locals of pair_arrive_left
  open_idx,      \* history: position in g of the row that set open_start
  pairs,         \* history: for each element of rows, the positions in g of
                 \* the Arrived row and of the Left row that produced it
  df,            \* the sessions, line 136-140
  df_cols,       \* the column labels of df
  start_date, end_date,                    \* arguments of the last callback
  raised,        \* exception the last callback ended with ("" if it returned)
  filtered_df, total_duty_hours,
  duty_hours_by_day, duty_hours_by_location, duty_hours_by_week,
  first_call,    \* history: the first callback that returned (its arguments,
                 \* the df it read, its results, and whether a callback with
                 \* other arguments returned after it); NoCall before it;
                 \* NotTraced in the specifications that keep no history
  scan           \* per Location, a worker running pair_arrive_left on that
                 \* Location's group next to the others: its position, its
                 \* sorted group, its row index and its locals

vars == <<pc, combined_df, data, todo, g, i, open_start, open_addr, open_loc,
          rows, open_idx, pairs, df, df_cols, start_date, end_date, raised,
          filtered_df, total_duty_hours, duty_hours_by_day,
          duty_hours_by_location, duty_hours_by_week, first_call,
          scan>>

normVars == <<combined_df, data>>
pairVars == <<g, i, open_start, open_addr, open_loc, rows, open_idx, pairs>>
aggVars  == <<start_date, end_date, raised, filtered_df, total_duty_hours,
              duty_hours_by_day, duty_hours_by_location, duty_hours_by_week,
              first_call>>
dfVars   == <<df, df_cols>>

(***************************************************************************)
(* Bounds of the model and program constants.                              *)
(***************************************************************************)
MaxEvents == 4       \* longest per-location stream handed to pair_arrive_left
MaxRows   == 3       \* most raw rows in combined_df
MaxTick   == 4       \* timestamps are EpochDay 00:00 + k * TimeStep, k in 0..MaxTick
TimeStep  == 1350    \* minutes between two ticks (22.5 h: 2 ticks = 45 h)
EpochDay  == 19357   \* day number (since 1970-01-01) of tick 0: Saturday 2022-12-31
MaxDate   == 4       \* the date picker offers EpochDay .. EpochDay + MaxDate

MAX_SHIFT_HOURS == 45
MinutesPerHour  == 60
MinutesPerDay   == 1440

NoneT   == -1        \* None / NaT in a timestamp or index position
Malformed == -2      \* a DateandTime text that does not match the format
NoneStr == "None"    \* None in a string position

\* values of the history first_call before the first callback has returned
NotTraced == [traced |-> FALSE, made |-> FALSE]
NoCall    == [traced |-> TRUE, made |-> FALSE]

Arrived == "Arrived at location"
Left    == "Left location"
Other   == "Other"   \* any ArrivedLeft text that is neither of the two
EventKinds == {Arrived, Left, Other}

LocationsSorted == <<"CHKD", "SNGH">>    \* in the order sort/groupby use
Locations == {LocationsSorted[k] : k \in 1..Len(LocationsSorted)}
Addresses == {"addr1", "addr2"}

Times == {EpochDay * MinutesPerDay + k * TimeStep : k \in 0..MaxTick}

Event(t, e, a, l) == [DateandTime |-> t, ArrivedLeft |-> e, Address |-> a, Location |-> l]

(***************************************************************************)
(* Generic helpers.                                                        *)
(***************************************************************************)
RemoveAt(s, k) == SubSeq(s, 1, k - 1) \o SubSeq(s, k + 1, Len(s))

(***************************************************************************)
(* pair_arrive_left, lines 94-134.                                         *)
(***************************************************************************)

\* line 101: g.sort_values("DateandTime").  One sort key, default
\* kind="quicksort", which is not stable: every arrangement of the rows
\* that is non-decreasing in DateandTime is a possible result.
\* Arrangements(s, K): the arrangements of the rows of s at the positions K.
RECURSIVE Arrangements(_, _)
Arrangements(s, K) ==
  IF K = {} THEN {<<>>}
  ELSE UNION {{<<s[k]>> \o rest : rest \in Arrangements(s, K \ {k})} :
                k \in {x \in K : \A y \in K : s[x].DateandTime <= s[y].DateandTime}}

\* variant: the group is scanned in any order (no sort)
SortValuesByTime_AnyOrder(s) ==
  {[k \in 1..Len(s) |-> s[p[k]]] :
     p \in {q \in [1..Len(s) -> 1..Len(s)] :
              \A a, b \in 1..Len(s) : a # b => q[a] # q[b]}}

SortValuesByTime(s) == Arrangements(s, 1..Len(s))

\* lines 103-106
PairInit == [open_start |-> NoneT, open_addr |-> NoneStr, open_loc |-> NoneStr,
             rows |-> <<>>, open_idx |-> NoneT, pairs |-> <<>>]

\* variant: an arrival does not replace one that is still open
OnArrived_KeepFirst(st, k, ev) ==
  IF st.open_start # NoneT THEN st
  ELSE [st EXCEPT !.open_start = ev.DateandTime,
                  !.open_addr  = ev.Address,
                  !.open_loc   = ev.Location,
                  !.open_idx   = k]

\* lines 109-113: keep the most recent arrival
OnArrived(st, k, ev) ==
  [st EXCEPT !.open_start = ev.DateandTime,
             !.open_addr  = ev.Address,
             !.open_loc   = ev.Location,
             !.open_idx   = k]

\* line 116; the value is hours * MinutesPerHour
Hours60(t, start) == t - start

\* variant: the upper limit is exclusive
ValidHours_Exclusive(h60) == 0 < h60 /\ h60 < MAX_SHIFT_HOURS * MinutesPerHour

\* line 118
ValidHours(h60) == 0 < h60 /\ h60 <= MAX_SHIFT_HOURS * MinutesPerHour

\* the row appended at lines 119-127
SessionRow(st, hours) ==
  [DateandTime |-> st.open_start, Location |-> st.open_loc,
   Address |-> st.open_addr, TimeElapsed |-> hours]

\* variant: the session is closed only when a row was emitted
OnLeft_CloseOnEmit(st, k, ev) ==
  LET hours == Hours60(ev.DateandTime, st.open_start)
  IN IF ValidHours(hours)
     THEN [st EXCEPT !.rows = Append(@, SessionRow(st, hours)),
                     !.pairs = Append(@, [arr |-> st.open_idx, left |-> k]),
                     !.open_start = NoneT, !.open_addr = NoneStr,
                     !.open_loc = NoneStr, !.open_idx = NoneT]
     ELSE st

\* variant: a duration above the limit is clamped to the limit
OnLeft_Clamp(st, k, ev) ==
  LET hours == Hours60(ev.DateandTime, st.open_start)
      limit == MAX_SHIFT_HOURS * MinutesPerHour
  IN [st EXCEPT
        !.rows  = IF hours > 0
                  THEN Append(@, SessionRow(st, IF hours > limit THEN limit ELSE hours))
                  ELSE @,
        !.pairs = IF hours > 0 THEN Append(@, [arr |-> st.open_idx, left |-> k]) ELSE @,
        !.open_start = NoneT, !.open_addr = NoneStr,
        !.open_loc = NoneStr, !.open_idx = NoneT]

\* variant: lines 130-132 are missing, the arrival stays open after a Left
OnLeft_NoClose(st, k, ev) ==
  LET hours == Hours60(ev.DateandTime, st.open_start)
      emit  == ValidHours(hours)
  IN [st EXCEPT
        !.rows  = IF emit THEN Append(@, SessionRow(st, hours)) ELSE @,
        !.pairs = IF emit THEN Append(@, [arr |-> st.open_idx, left |-> k]) ELSE @]

\* variant: the session carries the address of the Left row
OnLeft_LeftAddress(st, k, ev) ==
  LET hours == Hours60(ev.DateandTime, st.open_start)
      emit  == ValidHours(hours)
  IN [st EXCEPT
        !.rows  = IF emit
                  THEN Append(@, [SessionRow(st, hours) EXCEPT !.Address = ev.Address])
                  ELSE @,
        !.pairs = IF emit THEN Append(@, [arr |-> st.open_idx, left |-> k]) ELSE @,
        !.open_start = NoneT,
        !.open_addr  = NoneStr,
        !.open_loc   = NoneStr,
        !.open_idx   = NoneT]

\* lines 115-132, taken when open_start is not None
OnLeft(st, k, ev) ==
  LET hours == Hours60(ev.DateandTime, st.open_start)
      emit  == ValidHours(hours)
  IN [st EXCEPT
        !.rows  = IF emit THEN Append(@, SessionRow(st, hours)) ELSE @,
        !.pairs = IF emit THEN Append(@, [arr |-> st.open_idx, left |-> k]) ELSE @,
        !.open_start = NoneT,
        !.open_addr  = NoneStr,
        !.open_loc   = NoneStr,
        !.open_idx   = NoneT]

\* variant: a Left with nothing open is taken as the start of a session
PairStep_LeftOpens(st, k, ev) ==
  IF ev.ArrivedLeft = Arrived THEN OnArrived(st, k, ev)
  ELSE IF ev.ArrivedLeft = Left /\ st.open_start # NoneT THEN OnLeft(st, k, ev)
  ELSE IF ev.ArrivedLeft = Left THEN OnArrived(st, k, ev)
  ELSE st

\* one iteration of the loop of line 108
PairStep(st, k, ev) ==
  IF ev.ArrivedLeft = Arrived THEN OnArrived(st, k, ev)
  ELSE IF ev.ArrivedLeft = Left /\ st.open_start # NoneT THEN OnLeft(st, k, ev)
  ELSE st

\* the loop of line 108 over the first n rows of s, from state st
RECURSIVE PairScanFrom(_, _, _)
PairScanFrom(st, s, n) ==
  IF n = 0 THEN st
  ELSE PairStep(PairScanFrom(st, s, n - 1), n, s[n])

\* variant: an arrival still open at the end of the stream is flushed as a
\* session that lasts until the last row
PairResult_Flush(st, s) ==
  IF st.open_start # NoneT
  THEN Append(st.rows, SessionRow(st, s[Len(s)].DateandTime - st.open_start))
  ELSE st.rows

\* line 134: the DataFrame returned for the scanned stream s
PairResult(st, s) == st.rows

\* lines 103-134 on an already sorted stream
PairRows(s) == PairResult(PairScanFrom(PairInit, s, Len(s)), s)

\* a worker that has not been started, and all of them
IdleWorker == [pc |-> "idle", g |-> <<>>, i |-> 1, st |-> PairInit]
NoWorkers  == [l \in Locations |-> IdleWorker]

PairState == [open_start |-> open_start, open_addr |-> open_addr,
              open_loc |-> open_loc, rows |-> rows,
              open_idx |-> open_idx, pairs |-> pairs]

SetPairState(st) ==
  /\ open_start' = st.open_start
  /\ open_addr'  = st.open_addr
  /\ open_loc'   = st.open_loc
  /\ rows'       = st.rows
  /\ open_idx'   = st.open_idx
  /\ pairs'      = st.pairs

\* lines 101-106
PairEnter ==
  /\ pc = "pair_enter"
  /\ g' \in SortValuesByTime(g)
  /\ SetPairState(PairInit)
  /\ i' = 1
  /\ pc' = "pair_loop"
  /\ UNCHANGED <<normVars, todo, dfVars, aggVars, scan>>

\* lines 108-113
LoopArrived ==
  /\ pc = "pair_loop"
  /\ i <= Len(g)
  /\ g[i].ArrivedLeft = Arrived
  /\ SetPairState(PairStep(PairState, i, g[i]))
  /\ i' = i + 1
  /\ UNCHANGED <<pc, g, normVars, todo, dfVars, aggVars, scan>>

\* lines 115-132
LoopLeftOpen ==
  /\ pc = "pair_loop"
  /\ i <= Len(g)
  /\ g[i].ArrivedLeft = Left
  /\ open_start # NoneT
  /\ SetPairState(PairStep(PairState, i, g[i]))
  /\ i' = i + 1
  /\ UNCHANGED <<pc, g, normVars, todo, dfVars, aggVars, scan>>

\* line 115 false: a Left with nothing open, or any other ArrivedLeft text
LoopIgnored ==
  /\ pc = "pair_loop"
  /\ i <= Len(g)
  /\ g[i].ArrivedLeft # Arrived
  /\ ~(g[i].ArrivedLeft = Left /\ open_start # NoneT)
  /\ SetPairState(PairStep(PairState, i, g[i]))
  /\ i' = i + 1
  /\ UNCHANGED <<pc, g, normVars, todo, dfVars, aggVars, scan>>

\* line 134
PairReturn ==
  /\ pc = "pair_loop"
  /\ i > Len(g)
  /\ pc' = "pair_return"
  /\ df' = df \o PairResult(PairState, g)     \* concatenated by apply, line 138
  /\ UNCHANGED <<pairVars, normVars, todo, df_cols, aggVars, scan>>

NextPair == PairEnter \/ LoopArrived \/ LoopLeftOpen \/ LoopIgnored \/ PairReturn

(***************************************************************************)
(* The streams groupby hands to pair_arrive_left: rows of one Location,    *)
(* with parsed timestamps, in non-decreasing time order (line 82) and      *)
(* without two rows of equal (Location, DateandTime, ArrivedLeft)          *)
(* (line 85).                                                              *)
(***************************************************************************)
IsTimeSorted(s) == \A a, b \in 1..Len(s) : a < b => s[a].DateandTime <= s[b].DateandTime

NoDupTriple(s) ==
  \A a, b \in 1..Len(s) :
    a # b => ~(/\ s[a].Location = s[b].Location
               /\ s[a].DateandTime = s[b].DateandTime
               /\ s[a].ArrivedLeft = s[b].ArrivedLeft)

\* the rows a stream is drawn from: an Arrived row carries ArrivedAddress,
\* the other rows carry LeftAddress
ArrivedAddress == "addr1"
LeftAddress == "addr2"
StreamEvents(loc) ==
  {Event(t, e, IF e = Arrived THEN ArrivedAddress ELSE LeftAddress, loc) :
     t \in Times, e \in EventKinds}

RECURSIVE StreamsOfLen(_, _)
StreamsOfLen(loc, n) ==
  IF n = 0 THEN {<<>>}
  ELSE {Append(se[1], se[2]) :
          se \in {x \in StreamsOfLen(loc, n - 1) \X StreamEvents(loc) :
                    IsTimeSorted(Append(x[1], x[2])) /\ NoDupTriple(Append(x[1], x[2]))}}

GroupStreams(loc) == UNION {StreamsOfLen(loc, n) : n \in 0..MaxEvents}

\* nothing scanned yet
PairIdle ==
  /\ i = 1
  /\ open_start = NoneT /\ open_addr = NoneStr /\ open_loc = NoneStr
  /\ rows = <<>> /\ open_idx = NoneT /\ pairs = <<>>
  /\ scan = NoWorkers

\* no callback has run yet
AggIdle ==
  /\ start_date = NoneT /\ end_date = NoneT /\ raised = ""
  /\ filtered_df = <<>> /\ total_duty_hours = 0
  /\ duty_hours_by_day = <<>> /\ duty_hours_by_location = <<>>
  /\ duty_hours_by_week = <<>>
  /\ first_call = NotTraced

InitPair ==
  /\ pc = "pair_enter"
  /\ g \in GroupStreams(LocationsSorted[1])
  /\ PairIdle
  /\ combined_df = <<>> /\ data = <<>> /\ todo = <<>>
  /\ df = <<>> /\ df_cols = {}
  /\ AggIdle

SpecPair == InitPair /\ [][NextPair]_vars

(***************************************************************************)
(* Normalisation of the raw rows, lines 68-85.                             *)
(*                                                                         *)
(* The DateandTime text of a raw row is Malformed or a number k standing   *)
(* for the well-formed text of tick k.                                     *)
(***************************************************************************)
TickTime(k) == EpochDay * MinutesPerDay + k * TimeStep

\* lines 72-76: pd.to_datetime(..., errors="coerce") of one text
ToDatetime(text) == IF text = Malformed THEN NoneT ELSE TickTime(text)

\* lines 72-76 on the whole column
ParseDatetime(tbl) ==
  [k \in 1..Len(tbl) |-> [tbl[k] EXCEPT !.DateandTime = ToDatetime(@)]]

\* line 79
NotNaT(r) == r.DateandTime # NoneT

\* variant: the rows with NaT are kept
DropNa_KeepAll(tbl) == tbl

DropNa(tbl) == SelectSeq(tbl, NotNaT)

\* position of a Location in the sort order of its text
LocRank(l) == CHOOSE k \in 1..Len(LocationsSorted) : LocationsSorted[k] = l

\* the order of by=["Location", "DateandTime"], line 82
KeyLE(a, b) ==
  \/ LocRank(a.Location) < LocRank(b.Location)
  \/ a.Location = b.Location /\ a.DateandTime <= b.DateandTime

\* r is put behind every row whose key is not greater (the sort is stable)
InsertStable(tbl, r) ==
  LET n == Cardinality({k \in 1..Len(tbl) : KeyLE(tbl[k], r)})
  IN SubSeq(tbl, 1, n) \o <<r>> \o SubSeq(tbl, n + 1, Len(tbl))

\* line 82: sort_values on two keys is a stable (lexsort) sort
RECURSIVE SortValues(_)
SortValues(tbl) ==
  IF tbl = <<>> THEN <<>>
  ELSE InsertStable(SortValues(SubSeq(tbl, 1, Len(tbl) - 1)), tbl[Len(tbl)])

\* variant: the duplicates are compared on all four columns
SameTriple_AllColumns(a, b) == a = b

\* the subset of line 85
SameTriple(a, b) ==
  /\ a.Location = b.Location
  /\ a.DateandTime = b.DateandTime
  /\ a.ArrivedLeft = b.ArrivedLeft

\* variant: keep="last"
RECURSIVE DropDuplicates_KeepLast(_)
DropDuplicates_KeepLast(tbl) ==
  IF tbl = <<>> THEN <<>>
  ELSE IF \E j \in 2..Len(tbl) : SameTriple(tbl[j], tbl[1])
       THEN DropDuplicates_KeepLast(Tail(tbl))
       ELSE <<tbl[1]>> \o DropDuplicates_KeepLast(Tail(tbl))

\* line 85: drop_duplicates(subset=..., keep="first")
RECURSIVE DropDuplicates(_)
DropDuplicates(tbl) ==
  IF tbl = <<>> THEN <<>>
  ELSE LET n == Len(tbl)
           front == DropDuplicates(SubSeq(tbl, 1, n - 1))
       IN IF \E j \in 1..(n - 1) : SameTriple(tbl[j], tbl[n])
          THEN front
          ELSE Append(front, tbl[n])

\* lines 68-85 (reset_index only renumbers the rows)
Normalized(tbl) == DropDuplicates(SortValues(DropNa(ParseDatetime(tbl))))

Normalize ==
  /\ pc = "normalize"
  /\ data' = Normalized(combined_df)
  /\ pc' = "groupby"
  /\ UNCHANGED <<combined_df, todo, pairVars, dfVars, aggVars, scan>>

NextNorm == Normalize

(***************************************************************************)
(* groupby("Location").apply(pair_arrive_left), lines 136-140.             *)
(***************************************************************************)
DataColumns    == {"DateandTime", "ArrivedLeft", "Address", "Location"}
SessionColumns == {"DateandTime", "Location", "Address", "TimeElapsed"}

\* the group keys, in sorted order
GroupKeys(tbl) ==
  SelectSeq(LocationsSorted, LAMBDA l : \E k \in 1..Len(tbl) : tbl[k].Location = l)

\* the rows of one group, in the order of the table
GetGroup(tbl, l) == SelectSeq(tbl, LAMBDA r : r.Location = l)

\* line 137
GroupBy ==
  /\ pc = "groupby"
  /\ todo' = GroupKeys(data)
  /\ df' = <<>>
  /\ pc' = "apply"
  /\ UNCHANGED <<normVars, pairVars, df_cols, aggVars, scan>>

\* line 138: the next group is handed to pair_arrive_left
ApplyNext ==
  /\ pc \in {"apply", "pair_return"}
  /\ todo # <<>>
  /\ g' = GetGroup(data, Head(todo))
  /\ todo' = Tail(todo)
  /\ pc' = "pair_enter"
  /\ UNCHANGED <<normVars, i, open_start, open_addr, open_loc, rows, open_idx,
                 pairs, dfVars, aggVars, scan>>

\* the column labels of the concatenated result: those of data when there
\* was no group to apply to, none when every group returned the empty
\* DataFrame of line 134, else those of the session rows
ResultColumns(tbl, sessions) ==
  IF tbl = <<>> THEN DataColumns
  ELSE IF sessions = <<>> THEN {}
  ELSE SessionColumns

\* lines 138-140: all groups done
ApplyDone ==
  /\ pc \in {"apply", "pair_return"}
  /\ todo = <<>>
  /\ df_cols' = ResultColumns(data, df)
  /\ pc' = "serve"
  /\ UNCHANGED <<normVars, todo, pairVars, df, aggVars, scan>>

\* lines 136-140 as a function of data: the session tables that the groups,
\* taken in key order, can concatenate to (one per outcome of line 101)
RECURSIVE ApplyGroups(_, _)
ApplyGroups(tbl, keys) ==
  IF keys = <<>> THEN {<<>>}
  ELSE {PairRows(s) \o rest :
          s \in SortValuesByTime(GetGroup(tbl, Head(keys))),
          rest \in ApplyGroups(tbl, Tail(keys))}

GroupByApply(tbl) == ApplyGroups(tbl, GroupKeys(tbl))

(***************************************************************************)
(* update_graphs, lines 207-227.  A date of the picker is a day number     *)
(* (days since 1970-01-01) standing for its text "YYYY-MM-DD".             *)
(***************************************************************************)

\* the Timestamp a date text is compared as at line 208: its midnight
ToTimestamp(date) == date * MinutesPerDay

\* dt.date, line 213
DateOf(t) == t \div MinutesPerDay

\* leap years up to and including y
LeapsUpTo(y) == (y \div 4) - (y \div 100) + (y \div 400)

\* day number of January 1st of year y
YearStart(y) == 365 * (y - 1970) + LeapsUpTo(y - 1) - LeapsUpTo(1969)

RECURSIVE YearFrom(_, _)
YearFrom(y, d) == IF YearStart(y + 1) <= d THEN YearFrom(y + 1, d) ELSE y

\* the calendar year of day d
YearOf(d) == YearFrom(1970 + (d \div 366), d)

\* day of the year, 0 for January 1st
YearDay(d) == d - YearStart(YearOf(d))

\* day of the week, 0 for Monday (1970-01-01 was a Thursday)
WeekDay(d) == (d + 3) % 7

\* variant: strftime("%U"), the week of the year with Sunday as first day
WeekOfYear_SundayFirst(t) ==
  (YearDay(DateOf(t)) + 7 - ((WeekDay(DateOf(t)) + 1) % 7)) \div 7

\* strftime("%W"), line 225: week of the year with Monday as first day; the
\* days before the first Monday are in week 0
WeekOfYear(t) == (YearDay(DateOf(t)) + 7 - WeekDay(DateOf(t))) \div 7

RECURSIVE SumElapsed(_)
SumElapsed(tbl) ==
  IF tbl = <<>> THEN 0 ELSE tbl[1].TimeElapsed + SumElapsed(Tail(tbl))

\* variant: the end of the range is exclusive
FilterRange_ExclusiveEnd(tbl, sd, ed) ==
  SelectSeq(tbl, LAMBDA r : r.DateandTime >= ToTimestamp(sd) /\ r.DateandTime < ToTimestamp(ed))

\* variant: a session must also end inside the range
FilterRange_WholeSession(tbl, sd, ed) ==
  SelectSeq(tbl, LAMBDA r : /\ r.DateandTime >= ToTimestamp(sd)
                            /\ r.DateandTime + r.TimeElapsed <= ToTimestamp(ed))

\* variant: the whole end date is inside the range
FilterRange_EndOfDay(tbl, sd, ed) ==
  SelectSeq(tbl, LAMBDA r : /\ r.DateandTime >= ToTimestamp(sd)
                            /\ r.DateandTime < ToTimestamp(ed + 1))

\* line 208
FilterRange(tbl, sd, ed) ==
  SelectSeq(tbl, LAMBDA r : r.DateandTime >= ToTimestamp(sd) /\ r.DateandTime <= ToTimestamp(ed))

\* line 210
TotalHours(f) == IF f # <<>> THEN SumElapsed(f) ELSE 0

\* variant: .first() in place of .sum()
ByDay_First(f) ==
  [d \in {DateOf(f[k].DateandTime) : k \in 1..Len(f)} |->
     SelectSeq(f, LAMBDA r : DateOf(r.DateandTime) = d)[1].TimeElapsed]

\* lines 212-215
ByDay(f) ==
  [d \in {DateOf(f[k].DateandTime) : k \in 1..Len(f)} |->
     SumElapsed(SelectSeq(f, LAMBDA r : DateOf(r.DateandTime) = d))]

\* lines 217-220
ByLocation(f) ==
  [l \in {f[k].Location : k \in 1..Len(f)} |->
     SumElapsed(SelectSeq(f, LAMBDA r : r.Location = l))]

\* lines 224-227
ByWeek(f) ==
  [w \in {WeekOfYear(f[k].DateandTime) : k \in 1..Len(f)} |->
     SumElapsed(SelectSeq(f, LAMBDA r : WeekOfYear(r.DateandTime) = w))]

DateChoices == {EpochDay + k : k \in 0..MaxDate}

\* history of the callbacks that returned: the first one is recorded, a
\* later one with other arguments is noted
Traced(sd, ed, f) ==
  IF ~first_call.traced THEN NotTraced
  ELSE IF ~first_call.made
  THEN [traced |-> TRUE, made |-> TRUE,
        start_date |-> sd, end_date |-> ed, df |-> df,
        total_duty_hours |-> TotalHours(f),
        duty_hours_by_day |-> ByDay(f),
        duty_hours_by_location |-> ByLocation(f),
        duty_hours_by_week |-> ByWeek(f),
        between |-> FALSE]
  ELSE [first_call EXCEPT
          !.between = @ \/ sd # first_call.start_date \/ ed # first_call.end_date]

\* variant: the filter of line 208 is assigned to the global df
UpdateGraphs_InPlace(sd, ed) ==
  /\ pc = "serve"
  /\ "DateandTime" \in df_cols
  /\ start_date' = sd /\ end_date' = ed
  /\ raised' = ""
  /\ LET f == FilterRange(df, sd, ed)
     IN /\ filtered_df' = f
        /\ df' = f
        /\ total_duty_hours' = TotalHours(f)
        /\ duty_hours_by_day' = ByDay(f)
        /\ duty_hours_by_location' = ByLocation(f)
        /\ duty_hours_by_week' = ByWeek(f)
        /\ first_call' = Traced(sd, ed, f)
  /\ UNCHANGED <<pc, normVars, todo, pairVars, df_cols, scan>>

\* lines 207-273, the callback returns
UpdateGraphs(sd, ed) ==
  /\ pc = "serve"
  /\ "DateandTime" \in df_cols
  /\ start_date' = sd /\ end_date' = ed
  /\ raised' = ""
  /\ LET f == FilterRange(df, sd, ed)
     IN /\ filtered_df' = f
        /\ total_duty_hours' = TotalHours(f)
        /\ duty_hours_by_day' = ByDay(f)
        /\ duty_hours_by_location' = ByLocation(f)
        /\ duty_hours_by_week' = ByWeek(f)
        /\ first_call' = Traced(sd, ed, f)
  /\ UNCHANGED <<pc, normVars, todo, pairVars, dfVars, scan>>

\* line 208 when df has no column "DateandTime": df[...] raises KeyError and
\* the callback assigns nothing
UpdateGraphsKeyError(sd, ed) ==
  /\ pc = "serve"
  /\ "DateandTime" \notin df_cols
  /\ start_date' = sd /\ end_date' = ed
  /\ raised' = "KeyError"
  /\ UNCHANGED <<pc, normVars, todo, pairVars, dfVars, filtered_df,
                 total_duty_hours, duty_hours_by_day, duty_hours_by_location,
                 duty_hours_by_week, first_call, scan>>

Callback ==
  \E sd, ed \in DateChoices : UpdateGraphs(sd, ed) \/ UpdateGraphsKeyError(sd, ed)

NextAgg == Callback

(***************************************************************************)
(* The whole script: raw rows in, callbacks served at the end.             *)
(***************************************************************************)
\* the texts of the raw rows: a malformed one and those of the ticks 0 and 1
RawTexts == {Malformed, 0, 1}

RawRows ==
  {Event(x, e, a, l) : x \in RawTexts, e \in {Arrived, Left},
                       a \in Addresses, l \in Locations}

RawTables == UNION {[1..n -> RawRows] : n \in 0..MaxRows}

InitNorm ==
  /\ pc = "normalize"
  /\ combined_df \in RawTables
  /\ data = <<>> /\ todo = <<>> /\ g = <<>>
  /\ PairIdle
  /\ df = <<>> /\ df_cols = {}
  /\ AggIdle

Init == InitNorm

Next ==
  \/ Normalize
  \/ GroupBy \/ ApplyNext \/ ApplyDone
  \/ NextPair
  \/ Callback

Spec == Init /\ [][Next]_vars

SpecNorm == InitNorm /\ [][NextNorm]_vars

(***************************************************************************)
(* The session tables the callbacks can be served from: per Location a set *)
(* of sessions with a duration in (0, 45 h], each ending before the next   *)
(* one starts, concatenated in the order of the group keys.  (A session    *)
(* can also start at the instant the previous one ends; those tables are   *)
(* reached by the whole script under Spec and are not among these.)        *)
(***************************************************************************)
SessionChoices(l) ==
  {[DateandTime |-> t, Location |-> l, Address |-> a, TimeElapsed |-> u - t] :
     <<t, u, a>> \in {x \in Times \X Times \X Addresses : ValidHours(Hours60(x[2], x[1]))}}

Disjoint(S) ==
  \A r1, r2 \in S :
    r1 # r2 => \/ r1.DateandTime + r1.TimeElapsed < r2.DateandTime
               \/ r2.DateandTime + r2.TimeElapsed < r1.DateandTime

RECURSIVE InStartOrder(_)
InStartOrder(S) ==
  IF S = {} THEN <<>>
  ELSE LET first == CHOOSE r \in S : \A q \in S : r.DateandTime <= q.DateandTime
       IN <<first>> \o InStartOrder(S \ {first})

RECURSIVE ConcatGroups(_, _)
ConcatGroups(f, n) ==
  IF n = 0 THEN <<>>
  ELSE ConcatGroups(f, n - 1) \o InStartOrder(f[LocationsSorted[n]])

GroupSessions(l) == {S \in SUBSET SessionChoices(l) : Disjoint(S)}

SessionTables ==
  {ConcatGroups(f, Len(LocationsSorted)) :
     f \in {h \in [Locations -> UNION {GroupSessions(l) : l \in Locations}] :
              \A l \in Locations : h[l] \in GroupSessions(l)}}

\* an empty table has the columns of data (no rows at all) or none (rows,
\* but no session)
InitAgg ==
  /\ pc = "serve"
  /\ df \in SessionTables
  /\ df_cols \in (IF df = <<>> THEN {DataColumns, {}} ELSE {SessionColumns})
  /\ combined_df = <<>> /\ data = <<>> /\ todo = <<>> /\ g = <<>>
  /\ PairIdle
  /\ AggIdle

SpecAgg == InitAgg /\ [][NextAgg]_vars

\* the session tables with at most one session per Location, at the
\* address of the streams' Arrived rows
OneSessionTables ==
  {t \in SessionTables :
     /\ \A k \in 1..Len(t) : t[k].Address = ArrivedAddress
     /\ \A a, b \in 1..Len(t) : a # b => t[a].Location # t[b].Location}

\* the callbacks with their history kept
InitIdem ==
  /\ pc = "serve"
  /\ df \in OneSessionTables
  /\ df_cols \in (IF df = <<>> THEN {DataColumns, {}} ELSE {SessionColumns})
  /\ combined_df = <<>> /\ data = <<>> /\ todo = <<>> /\ g = <<>>
  /\ PairIdle
  /\ start_date = NoneT /\ end_date = NoneT /\ raised = ""
  /\ filtered_df = <<>> /\ total_duty_hours = 0
  /\ duty_hours_by_day = <<>> /\ duty_hours_by_location = <<>>
  /\ duty_hours_by_week = <<>>
  /\ first_call = NoCall

SpecIdem == InitIdem /\ [][NextAgg]_vars

(***************************************************************************)
(* pair_arrive_left run by one worker per Location, the workers' steps     *)
(* interleaved in any order.  The function reads its argument g and        *)
(* assigns only its locals (lines 101-106, 109-132), so a worker's step    *)
(* changes that worker's entry of scan and nothing else.                   *)
(***************************************************************************)

\* variant: open_start, open_addr and open_loc are shared by the workers
WorkerStep_SharedOpen(sc, l) ==
  LET st2 == PairStep(sc[l].st, sc[l].i, sc[l].g[sc[l].i])
  IN [m \in Locations |->
        IF m = l THEN [sc[l] EXCEPT !.st = st2, !.i = @ + 1]
        ELSE [sc[m] EXCEPT !.st.open_start = st2.open_start,
                           !.st.open_addr  = st2.open_addr,
                           !.st.open_loc   = st2.open_loc]]

\* one pass of the loop of line 108 by the worker of Location l
WorkerStep(sc, l) ==
  [sc EXCEPT ![l] = [@ EXCEPT !.st = PairStep(@, sc[l].i, sc[l].g[sc[l].i]),
                              !.i  = @ + 1]]

\* lines 101-106 by the worker of l
ParEnter(l) ==
  /\ pc = "apply"
  /\ \E k \in 1..Len(todo) : todo[k] = l
  /\ scan[l].pc = "idle"
  /\ \E s \in SortValuesByTime(GetGroup(data, l)) :
       scan' = [scan EXCEPT ![l] = [pc |-> "loop", g |-> s, i |-> 1, st |-> PairInit]]
  /\ UNCHANGED <<pc, normVars, todo, pairVars, dfVars, aggVars>>

\* lines 108-132 by the worker of l
ParStep(l) ==
  /\ pc = "apply"
  /\ scan[l].pc = "loop"
  /\ scan[l].i <= Len(scan[l].g)
  /\ scan' = WorkerStep(scan, l)
  /\ UNCHANGED <<pc, normVars, todo, pairVars, dfVars, aggVars>>

\* line 134 by the worker of l
ParReturn(l) ==
  /\ pc = "apply"
  /\ scan[l].pc = "loop"
  /\ scan[l].i > Len(scan[l].g)
  /\ scan' = [scan EXCEPT ![l].pc = "done"]
  /\ UNCHANGED <<pc, normVars, todo, pairVars, dfVars, aggVars>>

\* the workers' results concatenated in the order of the group keys
RECURSIVE MergeWorkers(_, _)
MergeWorkers(sc, keys) ==
  IF keys = <<>> THEN <<>>
  ELSE PairResult(sc[Head(keys)].st, sc[Head(keys)].g) \o MergeWorkers(sc, Tail(keys))

\* lines 138-140 once every worker has returned
ParMerge ==
  /\ pc = "apply"
  /\ \A k \in 1..Len(todo) : scan[todo[k]].pc = "done"
  /\ df' = MergeWorkers(scan, todo)
  /\ df_cols' = ResultColumns(data, df')
  /\ todo' = <<>>
  /\ pc' = "serve"
  /\ UNCHANGED <<normVars, pairVars, aggVars, scan>>

NextPar == (\E l \in Locations : ParEnter(l) \/ ParStep(l) \/ ParReturn(l)) \/ ParMerge

\* the tables normalisation can produce
NormalizedTables == {Normalized(t) : t \in RawTables}

\* after line 137: data is normalised and its groups are to be applied
InitPar ==
  /\ pc = "apply"
  /\ data \in NormalizedTables
  /\ todo = GroupKeys(data)
  /\ combined_df = <<>> /\ g = <<>>
  /\ PairIdle
  /\ df = <<>> /\ df_cols = {}
  /\ AggIdle

SpecPar == InitPar /\ [][NextPar]_vars

(***************************************************************************)
(* Vocabulary of the pairing claims, stated on the scanned stream g alone  *)
(* (not through the operators that model the loop).                        *)
(***************************************************************************)
Scanning == pc \in {"pair_loop", "pair_return"}
Returned == pc = "pair_return"
Processed == i - 1                  \* rows of g the loop has consumed

IsArr(k)  == g[k].ArrivedLeft = Arrived
IsLeft(k) == g[k].ArrivedLeft = Left
Gap(a, b) == g[b].DateandTime - g[a].DateandTime
GapInRange(a, b) == 0 < Gap(a, b) /\ Gap(a, b) <= 45 * 60

\* no Arrived and no Left row strictly between positions a and b
Adjacent(a, b) == a < b /\ \A m \in (a + 1)..(b - 1) : ~IsArr(m) /\ ~IsLeft(m)

\* the last Arrived row before position k (0 if none)
LastArrBefore(k) ==
  IF \E a \in 1..(k - 1) : IsArr(a)
  THEN CHOOSE a \in 1..(k - 1) : IsArr(a) /\ \A b \in (a + 1)..(k - 1) : ~IsArr(b)
  ELSE 0

\* an arrival is open when row k is reached
OpenAt(k) == LastArrBefore(k) # 0 /\ \A m \in (LastArrBefore(k) + 1)..(k - 1) : ~IsLeft(m)

StartsAt(tbl, t) == {j \in 1..Len(tbl) : tbl[j].DateandTime = t}

\* C1: at return, every Arrived row directly followed by a Left row with a gap
\* in (0, 45 h] has exactly one session, which starts at the Arrived
\* timestamp and lasts the elapsed time between the two rows.
C1_PairEmitted ==
  Returned =>
    \A k \in 1..(Len(g) - 1) :
      (IsArr(k) /\ IsLeft(k + 1) /\ GapInRange(k, k + 1)) =>
        /\ Cardinality(StartsAt(df, g[k].DateandTime)) = 1
        /\ \A j \in StartsAt(df, g[k].DateandTime) :
             /\ df[j].TimeElapsed = Gap(k, k + 1)
             /\ pairs[j] = [arr |-> k, left |-> k + 1]

\* two such pairs, one of them exactly 45 h long
C1_Witness ==
  /\ Returned
  /\ Len(df) = 2
  /\ \E k \in 1..(Len(g) - 1) :
       IsArr(k) /\ IsLeft(k + 1) /\ Gap(k, k + 1) = 45 * 60
       /\ \E j \in 1..Len(df) : df[j].DateandTime = g[k].DateandTime

\* C2: overwrite, don't stack.  Once Arrived@T1, Arrived@T2, Left@T3 (no
\* Arrived or Left row in between, T3 - T2 in (0, 45 h]) have been consumed,
\* there is exactly one session starting at T2 and none starting at T1, and
\* this stays so while later rows (a further Left included) are consumed.
C2_OverwriteDontStack ==
  Scanning =>
    \A k1, k2, k3 \in 1..Processed :
      (/\ IsArr(k1) /\ IsArr(k2) /\ IsLeft(k3)
       /\ Adjacent(k1, k2) /\ Adjacent(k2, k3)
       /\ g[k2].DateandTime > g[k1].DateandTime
       /\ GapInRange(k2, k3)) =>
        /\ Cardinality(StartsAt(rows, g[k2].DateandTime)) = 1
        /\ StartsAt(rows, g[k1].DateandTime) = {}
        /\ \A k4 \in (k3 + 1)..Processed :
             (IsLeft(k4) /\ Adjacent(k3, k4)) =>
               \A j \in 1..Len(pairs) : pairs[j].left # k4

\* Arrived, Arrived, Left, Left all consumed; the first arrival could have
\* been paired with either Left
C2_Witness ==
  /\ Returned
  /\ Len(g) = 4
  /\ IsArr(1) /\ IsArr(2) /\ IsLeft(3) /\ IsLeft(4)
  /\ GapInRange(2, 3) /\ GapInRange(1, 3)
  /\ Len(df) = 1 /\ df[1].DateandTime = g[2].DateandTime

\* C3: close on any Left.  After a Left row has been consumed the open state
\* is unset, whether or not a session was emitted; a Left whose gap from the
\* open arrival exceeds 45 h has no session; and the sessions returned are
\* those of the rows before it followed by those of the rows after it paired
\* from a fresh state.
C3_CloseOnAnyLeft ==
  /\ (Scanning /\ Processed >= 1 /\ IsLeft(Processed)) =>
       open_start = NoneT /\ open_addr = NoneStr /\ open_loc = NoneStr
  /\ Scanning =>
       \A k \in 1..Processed :
         (IsLeft(k) /\ OpenAt(k) /\ Gap(LastArrBefore(k), k) > 45 * 60) =>
           /\ \A j \in 1..Len(pairs) : pairs[j].left # k /\ pairs[j].arr # LastArrBefore(k)
           /\ Returned =>
                df = PairRows(SubSeq(g, 1, k - 1)) \o PairRows(SubSeq(g, k + 1, Len(g)))

\* an over-long Left, then an arrival and a valid Left that are paired
C3_Witness ==
  /\ Returned
  /\ Len(g) = 4
  /\ IsArr(1) /\ IsLeft(2) /\ Gap(1, 2) > 45 * 60
  /\ IsArr(3) /\ IsLeft(4) /\ GapInRange(3, 4)
  /\ Len(df) = 1 /\ df[1].DateandTime = g[3].DateandTime

\* C4: a Left row consumed while nothing is open emits no session and leaves
\* the open state and the emitted sessions as they were; the sessions
\* returned are those returned for the stream without that row.
C4_UnmatchedLeftIgnored ==
  Scanning =>
    \A k \in 1..Processed :
      (IsLeft(k) /\ ~OpenAt(k)) =>
        /\ \A j \in 1..Len(pairs) : pairs[j].left # k
        /\ k = Processed =>
             /\ open_start = NoneT /\ open_addr = NoneStr /\ open_loc = NoneStr
             /\ rows = PairRows(SubSeq(g, 1, k - 1))
        /\ Returned => df = PairRows(RemoveAt(g, k))

\* a stray Left right after a session was closed, then another session
C4_Witness ==
  /\ Returned
  /\ \E k \in 2..(Len(g) - 2) :
       /\ IsLeft(k - 1) /\ IsLeft(k) /\ ~OpenAt(k)
       /\ IsArr(k + 1) /\ IsLeft(k + 2) /\ GapInRange(k + 1, k + 2)
  /\ Len(df) = 1

\* C5: every emitted session has 0 < duration <= 45 h, its duration is the
\* gap between the Arrived row and the Left row it was made from (never a
\* clamped value), and a Left consumed while an arrival is open whose gap is
\* non-positive or above 45 h has no session.
C5_DurationBounds ==
  /\ \A j \in 1..Len(rows) :
       /\ 0 < rows[j].TimeElapsed /\ rows[j].TimeElapsed <= 45 * 60
       /\ rows[j].TimeElapsed = Gap(pairs[j].arr, pairs[j].left)
  /\ \A j \in 1..Len(df) : 0 < df[j].TimeElapsed /\ df[j].TimeElapsed <= 45 * 60
  /\ Scanning =>
       \A k \in 1..Processed :
         (IsLeft(k) /\ OpenAt(k) /\ ~GapInRange(LastArrBefore(k), k)) =>
           \A j \in 1..Len(pairs) : pairs[j].left # k

\* a pairing with a zero gap dropped, and a session of exactly 45 h emitted
C5_Witness ==
  /\ Returned
  /\ \E k \in 1..Len(g) : IsLeft(k) /\ OpenAt(k) /\ Gap(LastArrBefore(k), k) = 0
  /\ Len(df) = 1 /\ df[1].TimeElapsed = 45 * 60

\* C6: at return, an arrival that is still open has no session, every
\* session returned ends at the timestamp of a Left row of the stream, and
\* there are no more sessions than pairings made at Left rows.
C6_OpenArrivalDiscarded ==
  Returned =>
    /\ open_start # NoneT => StartsAt(df, open_start) = {}
    /\ Len(df) = Len(pairs)
    /\ \A j \in 1..Len(df) :
         /\ pairs[j].left \in 1..Len(g) /\ IsLeft(pairs[j].left)
         /\ g[pairs[j].left].DateandTime = df[j].DateandTime + df[j].TimeElapsed

\* a session, then an arrival with rows after it but no Left
C6_Witness ==
  /\ Returned
  /\ open_start # NoneT
  /\ Len(df) >= 1
  /\ open_idx < Len(g)

\* C7: no row of the stream is used by two sessions: the Arrived rows of the
\* sessions are pairwise distinct and so are their Left rows.
C7_EventUsedOnce ==
  /\ Len(pairs) = Len(rows)
  /\ \A j \in 1..Len(pairs) :
       /\ pairs[j].arr \in 1..Len(g) /\ IsArr(pairs[j].arr)
       /\ pairs[j].left \in 1..Len(g) /\ IsLeft(pairs[j].left)
       /\ rows[j].DateandTime = g[pairs[j].arr].DateandTime
  /\ \A j1, j2 \in 1..Len(pairs) :
       j1 # j2 => pairs[j1].arr # pairs[j2].arr /\ pairs[j1].left # pairs[j2].left

\* an arrival closed by the first of two Left rows that are both in range
C7_Witness ==
  /\ Returned
  /\ \E k \in 1..(Len(g) - 2) :
       IsArr(k) /\ IsLeft(k + 1) /\ IsLeft(k + 2)
       /\ GapInRange(k, k + 1) /\ GapInRange(k, k + 2)
  /\ Len(df) >= 1

\* the (Arrived, Left) index pairs of the scanned stream with no Arrived or
\* Left row between them and a gap in (0, 45 h]
AdjacentValidPairs ==
  {p \in (1..Len(g)) \X (1..Len(g)) :
     IsArr(p[1]) /\ IsLeft(p[2]) /\ Adjacent(p[1], p[2]) /\ GapInRange(p[1], p[2])}

\* C16: converse of the pairing rule.  Every session returned was made from
\* an Arrived row and a Left row of the scanned stream with no other Arrived
\* or Left row between them; its start, address and location are those of the
\* Arrived row and its duration is the gap between the two rows; the sessions
\* are in one-to-one correspondence with the adjacent pairs whose gap is in
\* (0, 45 h], so their number is the number of such pairs.
C16_SessionsAreAdjacentPairs ==
  /\ Len(rows) = Len(pairs)
  /\ \A j \in 1..Len(rows) :
       LET a == pairs[j].arr
           b == pairs[j].left
       IN /\ a \in 1..Len(g) /\ b \in 1..Len(g)
          /\ IsArr(a) /\ IsLeft(b) /\ Adjacent(a, b) /\ GapInRange(a, b)
          /\ rows[j].DateandTime = g[a].DateandTime
          /\ rows[j].Address = g[a].Address
          /\ rows[j].Location = g[a].Location
          /\ rows[j].TimeElapsed = Gap(a, b)
  /\ Returned =>
       /\ df = rows
       /\ {<<pairs[j].arr, pairs[j].left>> : j \in 1..Len(pairs)} = AdjacentValidPairs
       /\ Len(df) = Cardinality(AdjacentValidPairs)

\* one session made across a row that is neither Arrived nor Left, with the
\* address of its Arrived row and not of its Left row; an earlier Arrived
\* whose gap to the Left is in range too has no session
C16_Witness ==
  /\ Returned
  /\ Len(g) = 4 /\ Len(df) = 1
  /\ IsArr(1) /\ IsArr(2) /\ ~IsArr(3) /\ ~IsLeft(3) /\ IsLeft(4)
  /\ GapInRange(1, 4) /\ GapInRange(2, 4)
  /\ pairs[1] = [arr |-> 2, left |-> 4]
  /\ df[1].Address = g[2].Address /\ df[1].Address # g[4].Address

\* C17: the sessions of one location do not overlap.  In emission order the
\* starts are strictly increasing and each session ends (start + duration)
\* no later than the next one starts.
C17_NoOverlap ==
  /\ \A j \in 1..(Len(rows) - 1) :
       /\ rows[j].DateandTime < rows[j + 1].DateandTime
       /\ rows[j].DateandTime + rows[j].TimeElapsed <= rows[j + 1].DateandTime
  /\ \A j \in 1..(Len(df) - 1) :
       /\ df[j].Location = df[j + 1].Location
       /\ df[j].DateandTime < df[j + 1].DateandTime
       /\ df[j].DateandTime + df[j].TimeElapsed <= df[j + 1].DateandTime

\* two sessions that touch: the second starts at the instant the first ends
C17_Witness ==
  /\ Returned
  /\ Len(df) = 2
  /\ df[1].DateandTime + df[1].TimeElapsed = df[2].DateandTime

(***************************************************************************)
(* Normalisation claims.                                                   *)
(***************************************************************************)
NormalizedDone == pc # "normalize"

\* the rows of tbl at the positions in K, in their order
RECURSIVE RowsAt(_, _, _)
RowsAt(tbl, K, n) ==
  IF n = 0 THEN <<>>
  ELSE IF n \in K THEN Append(RowsAt(tbl, K, n - 1), tbl[n])
  ELSE RowsAt(tbl, K, n - 1)

\* the parsed rows in sorted order, before duplicates are dropped
SortedRows == SortValues(DropNa(ParseDatetime(combined_df)))

Triple(r) == <<r.Location, r.DateandTime, r.ArrivedLeft>>

\* C8: after normalisation the timestamps of every location are
\* non-decreasing in stream order, no two rows share (Location, DateandTime,
\* ArrivedLeft), and of the sorted rows exactly those are kept that are the
\* first with their triple, whatever their Address: one row per triple.
C8_NormalizedStream ==
  NormalizedDone =>
    /\ \A a, b \in 1..Len(data) :
         (a < b /\ data[a].Location = data[b].Location) =>
           data[a].DateandTime <= data[b].DateandTime
    /\ \A a, b \in 1..Len(data) : a # b => Triple(data[a]) # Triple(data[b])
    /\ LET firsts == {k \in 1..Len(SortedRows) :
                        \A j \in 1..(k - 1) : Triple(SortedRows[j]) # Triple(SortedRows[k])}
       IN data = RowsAt(SortedRows, firsts, Len(SortedRows))
    /\ {Triple(data[k]) : k \in 1..Len(data)}
         = {Triple(SortedRows[k]) : k \in 1..Len(SortedRows)}

\* two rows of one triple with different addresses, the second in input order
\* being dropped, next to a row of the other location
C8_Witness ==
  /\ NormalizedDone
  /\ Len(combined_df) = 3
  /\ Len(data) = 2
  /\ \E a, b \in 1..3 :
       /\ a < b
       /\ combined_df[a].DateandTime # Malformed
       /\ combined_df[a].DateandTime = combined_df[b].DateandTime
       /\ combined_df[a].Location = combined_df[b].Location
       /\ combined_df[a].ArrivedLeft = combined_df[b].ArrivedLeft
       /\ combined_df[a].Address # combined_df[b].Address
       /\ \E k \in 1..2 : data[k].Address = combined_df[a].Address
                          /\ data[k].Location = combined_df[a].Location
  /\ data[1].Location # data[2].Location

(***************************************************************************)
(* Aggregation claims.                                                     *)
(***************************************************************************)
\* the last callback returned
CallbackReturned == pc = "serve" /\ start_date # NoneT /\ raised = ""

\* sum of the values of a function with a finite domain
RECURSIVE SumValues(_)
SumValues(f) ==
  IF DOMAIN f = {} THEN 0
  ELSE LET k == CHOOSE x \in DOMAIN f : TRUE
       IN f[k] + SumValues([x \in DOMAIN f \ {k} |-> f[x]])

\* sum of TimeElapsed over the positions K of a table
RECURSIVE SumAt(_, _)
SumAt(tbl, K) ==
  IF K = {} THEN 0
  ELSE LET k == CHOOSE x \in K : TRUE
       IN tbl[k].TimeElapsed + SumAt(tbl, K \ {k})

\* C9: when a callback has returned, total_duty_hours equals the sum of the
\* by-location buckets and the sum of the by-day buckets; every filtered
\* session has its location and its day among the bucket keys, and each
\* bucket holds the sum of the filtered sessions with that key.
C9_TotalsAgree ==
  CallbackReturned =>
    /\ total_duty_hours = SumValues(duty_hours_by_location)
    /\ total_duty_hours = SumValues(duty_hours_by_day)
    /\ total_duty_hours = SumAt(filtered_df, 1..Len(filtered_df))
    /\ \A k \in 1..Len(filtered_df) :
         /\ filtered_df[k].Location \in DOMAIN duty_hours_by_location
         /\ filtered_df[k].DateandTime \div 1440 \in DOMAIN duty_hours_by_day
    /\ \A l \in DOMAIN duty_hours_by_location :
         duty_hours_by_location[l] =
           SumAt(filtered_df, {k \in 1..Len(filtered_df) : filtered_df[k].Location = l})
    /\ \A d \in DOMAIN duty_hours_by_day :
         duty_hours_by_day[d] =
           SumAt(filtered_df, {k \in 1..Len(filtered_df) :
                                 filtered_df[k].DateandTime \div 1440 = d})

\* three filtered sessions: two locations, two of the sessions on one day
C9_Witness ==
  /\ CallbackReturned
  /\ Len(filtered_df) = 3
  /\ Cardinality(DOMAIN duty_hours_by_location) = 2
  /\ Cardinality(DOMAIN duty_hours_by_day) = 2
  /\ Len(df) > Len(filtered_df)

\* C10: the filter keeps exactly the sessions whose start t satisfies
\* midnight(start_date) <= t <= midnight(end_date), both inclusive, in their
\* order; the total is the sum of the full durations of these sessions,
\* wherever they end.
C10_FilterByStart ==
  CallbackReturned =>
    LET lo == start_date * 1440
        hi == end_date * 1440
        kept == {k \in 1..Len(df) : lo <= df[k].DateandTime /\ df[k].DateandTime <= hi}
    IN /\ filtered_df = RowsAt(df, kept, Len(df))
       /\ total_duty_hours = SumAt(df, kept)

\* a one-day range: the session that starts at its midnight is kept with its
\* full duration although it ends after the range; a session that starts
\* later on that day is not kept
C10_Witness ==
  /\ CallbackReturned
  /\ start_date = end_date
  /\ Len(filtered_df) = 1
  /\ filtered_df[1].DateandTime = end_date * 1440
  /\ total_duty_hours = filtered_df[1].TimeElapsed
  /\ \E k \in 1..Len(df) :
       df[k].DateandTime > end_date * 1440 /\ df[k].DateandTime \div 1440 = end_date

\* the input rows whose timestamp text parses
Parseable(tbl) == SelectSeq(tbl, LAMBDA r : r.DateandTime # Malformed)

\* C15: rows whose timestamp does not parse are dropped and the others are
\* processed: no normalized row has a null timestamp, every normalized row is
\* the parse of an input row with a parseable timestamp, and the normalized
\* table (from which alone the sessions are made) is the one obtained from
\* the input without the unparsable rows.
C15_UnparsableDropped ==
  NormalizedDone =>
    /\ \A k \in 1..Len(data) : data[k].DateandTime # NoneT /\ data[k].DateandTime \in Times
    /\ \A k \in 1..Len(data) :
         \E j \in 1..Len(combined_df) :
           /\ combined_df[j].DateandTime # Malformed
           /\ data[k] = [combined_df[j] EXCEPT !.DateandTime = TickTime(@)]
    /\ data = Normalized(Parseable(combined_df))
    /\ Len(data) <= Len(Parseable(combined_df))

\* an unparsable row between an Arrived and a later Left of one location,
\* which are both kept
C15_Witness ==
  /\ NormalizedDone
  /\ Len(combined_df) = 3
  /\ combined_df[1].ArrivedLeft = Arrived /\ combined_df[1].DateandTime = 0
  /\ combined_df[2].DateandTime = Malformed
  /\ combined_df[3].ArrivedLeft = Left /\ combined_df[3].DateandTime = 1
  /\ combined_df[1].Location = combined_df[3].Location
  /\ Len(data) = 2
  /\ data[1].ArrivedLeft = Arrived /\ data[2].ArrivedLeft = Left

\* a callback has been made (it returned or it raised)
CallbackMade == pc = "serve" /\ start_date # NoneT

\* the callback's four results are the empty ones
EmptyResults ==
  /\ total_duty_hours = 0
  /\ DOMAIN duty_hours_by_day = {}
  /\ DOMAIN duty_hours_by_week = {}
  /\ DOMAIN duty_hours_by_location = {}

\* C11: a callback on a non-empty session table with a range that contains
\* no session start returns (no exception) with total 0 and empty by-day,
\* by-week and by-location results.
C11_EmptyRange ==
  (/\ CallbackMade
   /\ df # <<>>
   /\ \A k \in 1..Len(df) :
        ~(start_date * 1440 <= df[k].DateandTime /\ df[k].DateandTime <= end_date * 1440))
    => raised = "" /\ filtered_df = <<>> /\ EmptyResults

\* a well-ordered range that ends at the midnight of a day on which two
\* sessions start later
C11_Witness ==
  /\ CallbackMade
  /\ start_date < end_date
  /\ Len(df) >= 2
  /\ \A k \in 1..Len(df) : df[k].DateandTime \div 1440 = end_date
                           /\ df[k].DateandTime > end_date * 1440
  /\ raised = "" /\ EmptyResults

\* C12: empty input is never a fault.  Zero raw rows normalise to no rows,
\* and a callback on a session table without sessions (no rows, or rows but
\* no pairing) returns with total 0 and empty results.
C12_EmptyNeverFaults ==
  /\ (NormalizedDone /\ combined_df = <<>>) => data = <<>>
  /\ (CallbackMade /\ df = <<>>) => raised = "" /\ EmptyResults

\* the Monday-to-Sunday week of a timestamp, numbered from the week of
\* 1970-01-01 without regard to years
MondayWeek(t) == (DateOf(t) + 3) \div 7

\* the number of Mondays of the timestamp's year up to and including its day
MondaysOfYearUpTo(t) ==
  Cardinality({d \in YearStart(YearOf(DateOf(t)))..DateOf(t) : WeekDay(d) = 0})

SameYear(t, u) == YearOf(DateOf(t)) = YearOf(DateOf(u))

\* positions of the filtered sessions
Filtered == 1..Len(filtered_df)

SessionsMade == pc = "serve"

\* the worker of l has been started
Started(l) == scan[l].pc # "idle"

\* C13: the per-location scans share no state.  However the workers' steps
\* are interleaved, each worker's locals are what a scan of its own sorted
\* group alone gives after as many rows, the sessions a worker returns are
\* those of its group scanned alone and are of its Location, and the merged
\* table is one that running the groups one after another can give.
C13_InterleavingSameSessions ==
  /\ \A l \in Locations :
       Started(l) =>
         /\ scan[l].st = PairScanFrom(PairInit, scan[l].g, scan[l].i - 1)
         /\ \A k \in 1..Len(scan[l].g) : scan[l].g[k].Location = l
         /\ \A j \in 1..Len(scan[l].st.rows) : scan[l].st.rows[j].Location = l
         /\ scan[l].pc = "done" => scan[l].st.rows = PairRows(scan[l].g)
  /\ SessionsMade =>
       /\ df \in GroupByApply(data)
       /\ \A l \in Locations :
            SelectSeq(df, LAMBDA r : r.Location = l)
              = (IF Started(l) THEN PairRows(scan[l].g) ELSE <<>>)

\* both workers are in their loops: one has emitted a session after the
\* other one, not yet returned, has taken an arrival with another timestamp
C13_Witness ==
  \E l, m \in Locations :
    /\ l # m
    /\ scan[l].pc = "loop" /\ scan[m].pc = "loop"
    /\ Len(scan[l].st.rows) = 1
    /\ scan[m].i = 2 /\ scan[m].st.open_start # NoneT
    /\ scan[m].st.open_start # scan[l].st.rows[1].DateandTime

\* the tables with the rows of tbl in any order
Reorderings(tbl) ==
  {[k \in 1..Len(tbl) |-> tbl[p[k]]] :
     p \in {q \in [1..Len(tbl) -> 1..Len(tbl)] :
              \A a, b \in 1..Len(tbl) : a # b => q[a] # q[b]}}

\* C18: the sessions do not depend on the order of the input rows: the
\* session table made from the input is the only one that normalisation and
\* pairing can make from any reordering of the same rows, rows of different
\* kinds with equal timestamps included.
C18_OrderIndependent ==
  SessionsMade =>
    \A tbl \in Reorderings(combined_df) : GroupByApply(Normalized(tbl)) = {df}

\* a first callback has returned and is on record
FirstCallMade == first_call.traced /\ first_call.made

\* C14: aggregation is idempotent and pure.  No callback changes df, and a
\* callback with the arguments of the first one returns the total, by-day,
\* by-week and by-location results the first one returned, whatever
\* callbacks were made in between.
C14_Idempotent ==
  FirstCallMade =>
    /\ df = first_call.df
    /\ (/\ CallbackReturned
        /\ start_date = first_call.start_date
        /\ end_date = first_call.end_date) =>
         /\ total_duty_hours = first_call.total_duty_hours
         /\ duty_hours_by_day = first_call.duty_hours_by_day
         /\ duty_hours_by_week = first_call.duty_hours_by_week
         /\ duty_hours_by_location = first_call.duty_hours_by_location

\* the first callback kept one of two sessions, a callback with other
\* arguments followed, and the arguments of the first are used again
C14_Witness ==
  /\ FirstCallMade
  /\ CallbackReturned
  /\ first_call.between
  /\ start_date = first_call.start_date /\ end_date = first_call.end_date
  /\ Len(df) = 2 /\ Len(filtered_df) = 1
  /\ total_duty_hours > 0

=============================================================================
